---- MODULE Spec2Model ----
(***************************************************************************)
(* Blackbox-exporter style HTTP prober running as a Cloudflare Worker      *)
(* (src/src/http_prober.ts).                                               *)
(*                                                                         *)
(* JavaScript strings are TLA+ strings (TLC evaluates Len, SubSeq and \o   *)
(* on them).  A nullable or optional JavaScript value is a sequence of     *)
(* length at most one: <<>> is null/undefined/absent, <<v>> is the value.  *)
(***************************************************************************)
EXTENDS Integers, Sequences, FiniteSets, TLC

VARIABLES
    modules,    \* the static module table: module name -> HttpProbeConfig
    pc,         \* where the handler of the current inbound request stands
    request,    \* the inbound Request: [method, query], <<>> before the first
    config,     \* the HttpProbeConfig handed to new HttpProbe
    probe,      \* the HttpProbe built for the request, or <<>>
    target,     \* the target handed to buildRequest, or <<>>
    built,      \* the [req, err] pair buildRequest returned, or <<>>
    resp,       \* the outbound Response the fetch resolved with, or <<>>
    body,       \* the text read from resp, or <<>>
    success,    \* what validateResponse returned, or <<>>
    response,   \* the Response the handler answered with, or <<>>
    now,        \* Date.now(), counted from the dispatch of the fetch event
    before,     \* doProbe's start timestamp
    after,      \* doProbe's end timestamp
    steps,      \* the I/O steps of the current request, in order
    unit,       \* the last direct call of an exported function and its result
    events,     \* fetch events in flight together: event -> its request, the
                \* outbound response delivered to it, the handler's answer
    frames      \* the locals of the doProbe activations: probe, before, resp, body

vars == <<modules, pc, request, config, probe, target, built, resp, body,
          success, response, now, before, after, steps, unit, events, frames>>

Null == <<>>
Some(v) == <<v>>

(***************************************************************************)
(* String primitives of the JavaScript runtime.                            *)
(***************************************************************************)
UpperLetters == "ABCDEFGHIJKLMNOPQRSTUVWXYZ"
LowerLetters == "abcdefghijklmnopqrstuvwxyz"

CharAt(s, i) == SubSeq(s, i, i)

LowerChar(c) ==
    IF \E i \in 1..Len(UpperLetters) : CharAt(UpperLetters, i) = c
    THEN CharAt(LowerLetters, CHOOSE i \in 1..Len(UpperLetters) : CharAt(UpperLetters, i) = c)
    ELSE c

RECURSIVE toLowerCase(_)
toLowerCase(s) ==
    IF Len(s) = 0 THEN ""
    ELSE LowerChar(CharAt(s, 1)) \o toLowerCase(SubSeq(s, 2, Len(s)))

startsWith(s, prefix) ==
    Len(s) >= Len(prefix) /\ SubSeq(s, 1, Len(prefix)) = prefix

\* String.prototype.includes: sub occurs somewhere in s
StrIncludes(s, sub) ==
    \E i \in 0..(Len(s) - Len(sub)) : SubSeq(s, i + 1, i + Len(sub)) = sub

(***************************************************************************)
(* RegExp.prototype.test for patterns without flags, over the pattern      *)
(* language the configurations use: literal characters, `.` (any           *)
(* character), a postfix `+` on the preceding item, a leading `^` and a    *)
(* trailing `$`.  A RegExp is the record [source |-> pattern].             *)
(***************************************************************************)
RegExp(src) == [source |-> src]

CharMatches(p, c) == p = "." \/ p = c

RECURSIVE MatchHere(_, _)
MatchHere(re, s) ==
    IF Len(re) = 0 THEN TRUE
    ELSE IF re = "$" THEN Len(s) = 0
    ELSE IF Len(re) >= 2 /\ CharAt(re, 2) = "+"
    THEN /\ Len(s) > 0
         /\ CharMatches(CharAt(re, 1), CharAt(s, 1))
         /\ \/ MatchHere(SubSeq(re, 3, Len(re)), SubSeq(s, 2, Len(s)))
            \/ MatchHere(re, SubSeq(s, 2, Len(s)))
    ELSE /\ Len(s) > 0
         /\ CharMatches(CharAt(re, 1), CharAt(s, 1))
         /\ MatchHere(SubSeq(re, 2, Len(re)), SubSeq(s, 2, Len(s)))

\* r.test(s): a search, the match may start anywhere unless anchored by ^
RegExpTest(r, s) ==
    IF startsWith(r.source, "^")
    THEN MatchHere(SubSeq(r.source, 2, Len(r.source)), s)
    ELSE \E i \in 0..Len(s) : MatchHere(r.source, SubSeq(s, i + 1, Len(s)))

(***************************************************************************)
(* HttpProbeConfig, HttpStatusCodeClass and HttpProbe.                     *)
(***************************************************************************)
Http_1xx == 0
Http_2xx == 1
Http_3xx == 2
Http_4xx == 3
Http_5xx == 4

\* valid_status_codes is a status class (a number of the enum) or an array
StatusClass(c) == [class |-> c]
StatusCodes(a) == [codes |-> a]
IsStatusClass(v) == "class" \in DOMAIN v

\* an entry of allowed_targets is a string or a RegExp
Literal(s) == [string |-> s]
IsRegExp(e) == "source" \in DOMAIN e

\* the configuration {} : every option left out
EmptyConfig ==
    [method |-> Null, headers |-> Null, body |-> Null,
     no_follow_redirects |-> Null, allowed_targets |-> Null,
     valid_status_codes |-> Null, fail_if_matches_regexp |-> Null,
     fail_if_not_matches_regexp |-> Null]

\* JavaScript truthiness, by the type of the option
TruthyString(s) == s # ""
TruthyBoolean(b) == b
TruthyObject(o) == TRUE
\* truthiness taking an empty array for falsy
TruthyStatusCodes_EmptyFalsy(v) ==
    IF IsStatusClass(v) THEN v.class # 0 ELSE Len(v.codes) > 0

TruthyStatusCodes(v) == IF IsStatusClass(v) THEN v.class # 0 ELSE TRUE

\* opt || dflt
OrString(opt, dflt) == IF opt # Null /\ TruthyString(opt[1]) THEN opt[1] ELSE dflt
OrBoolean(opt, dflt) == IF opt # Null /\ TruthyBoolean(opt[1]) THEN opt[1] ELSE dflt
OrObject(opt, dflt) == IF opt # Null /\ TruthyObject(opt[1]) THEN opt[1] ELSE dflt
OrStatusCodes(opt, dflt) ==
    IF opt # Null /\ TruthyStatusCodes(opt[1]) THEN opt[1] ELSE dflt

\* headers are a sequence of <<name, value>> pairs
HttpProbe(cfg) ==
    [method |-> OrString(cfg.method, "GET"),
     headers |-> OrObject(cfg.headers, <<>>),
     body |-> OrString(cfg.body, ""),
     noFollowRedirects |-> OrBoolean(cfg.no_follow_redirects, FALSE),
     allowedTargets |-> OrObject(cfg.allowed_targets, <<>>),
     validStatusCodes |-> OrStatusCodes(cfg.valid_status_codes, StatusClass(Http_2xx)),
     failIfMatchesRegexp |-> OrObject(cfg.fail_if_matches_regexp, <<>>),
     failIfNotMatchesRegexp |-> OrObject(cfg.fail_if_not_matches_regexp, <<>>)]

\* the module table of the source
ModuleTable ==
    [n \in {"http_get_2xx", "http_post_204"} |->
        IF n = "http_get_2xx"
        THEN [EmptyConfig EXCEPT
                !.method = Some("GET"),
                !.fail_if_not_matches_regexp = Some(<<RegExp("ok")>>)]
        ELSE [EmptyConfig EXCEPT
                !.method = Some("POST"),
                !.allowed_targets = Some(<<Literal("https://example.com")>>),
                !.headers = Some(<< <<"Content-Type", "application/json">> >>),
                !.body = Some("{}"),
                !.valid_status_codes = Some(StatusCodes(<<204>>)),
                !.fail_if_matches_regexp = Some(<<RegExp("error")>>)]]

(***************************************************************************)
(* URLSearchParams: the query string as the platform parsed it, a record   *)
(* giving for each parameter name the handler asks for the first value     *)
(* under that name, or null when the URL has no such parameter.            *)
(***************************************************************************)
SearchParamsHas(q, name) == q[name] # Null

SearchParamsGet(q, name) == q[name]

(***************************************************************************)
(* errorResponse: callers hand it a message, or an Error whose message it  *)
(* takes; msg is that message.                                             *)
(***************************************************************************)
\* errorResponse answering 500
errorResponse_Status500(msg) ==
    [status |-> 500, statusText |-> "Bad Request",
     body |-> "error: " \o msg \o "\n"]

errorResponse(msg) ==
    [status |-> 400, statusText |-> "Bad Request",
     body |-> "error: " \o msg \o "\n"]

\* parseParams with the two presence checks swapped
parseParams_TargetFirst(r) ==
    IF ~SearchParamsHas(r.query, "target")
    THEN [value |-> Null, err |-> Some("target parameter is missing")]
    ELSE IF ~SearchParamsHas(r.query, "module")
    THEN [value |-> Null, err |-> Some("module parameter is missing")]
    ELSE [value |-> Some([module |-> OrString(SearchParamsGet(r.query, "module"), ""),
                          target |-> OrString(SearchParamsGet(r.query, "target"), "")]),
          err |-> Null]

\* parseParams lower-casing the values it returns
parseParams_Normalized(r) ==
    IF ~SearchParamsHas(r.query, "module")
    THEN [value |-> Null, err |-> Some("module parameter is missing")]
    ELSE IF ~SearchParamsHas(r.query, "target")
    THEN [value |-> Null, err |-> Some("target parameter is missing")]
    ELSE [value |-> Some([module |-> toLowerCase(OrString(SearchParamsGet(r.query, "module"), "")),
                          target |-> toLowerCase(OrString(SearchParamsGet(r.query, "target"), ""))]),
          err |-> Null]

\* [result, null] | [null, Error]: value is the first component, err the
\* message of the second
parseParams(r) ==
    IF ~SearchParamsHas(r.query, "module")
    THEN [value |-> Null, err |-> Some("module parameter is missing")]
    ELSE IF ~SearchParamsHas(r.query, "target")
    THEN [value |-> Null, err |-> Some("target parameter is missing")]
    ELSE [value |-> Some([module |-> OrString(SearchParamsGet(r.query, "module"), ""),
                          target |-> OrString(SearchParamsGet(r.query, "target"), "")]),
          err |-> Null]

\* isEqualOrMatched comparing a literal entry without regard to letter case
isEqualOrMatched_IgnoreCase(s, test) ==
    IF IsRegExp(test) THEN RegExpTest(test, s) ELSE toLowerCase(test.string) = s

\* isEqualOrMatched accepting a literal entry that is a prefix of the target
isEqualOrMatched_Prefix(s, test) ==
    IF IsRegExp(test) THEN RegExpTest(test, s) ELSE startsWith(s, test.string)

\* the callback isEqualOrMatched(s) returns, applied to one entry
isEqualOrMatched(s, test) ==
    IF IsRegExp(test) THEN RegExpTest(test, s) ELSE test.string = s

\* Array.prototype.some
ArraySome(a, s) == \E i \in 1..Len(a) : isEqualOrMatched(s, a[i])

\* buildRequest refusing a body for GET only
buildRequest_GetOnly(p, t) ==
    LET normTarget == toLowerCase(t) IN
    IF p.body # "" /\ p.method = "GET"
    THEN [value |-> Null, err |-> Some("body is not allowed for GET or HEAD request")]
    ELSE IF ~startsWith(normTarget, "http://") /\ ~startsWith(normTarget, "https://")
    THEN [value |-> Null,
          err |-> Some("target must start with either http:// or https://: " \o normTarget)]
    ELSE IF Len(p.allowedTargets) > 0 /\ ~ArraySome(p.allowedTargets, normTarget)
    THEN [value |-> Null,
          err |-> Some("target is not allowed in probe config: " \o normTarget)]
    ELSE [value |-> Some([url |-> normTarget,
                          method |-> p.method,
                          redirect |-> IF p.noFollowRedirects THEN "manual" ELSE "follow",
                          headers |-> p.headers,
                          body |-> IF p.body # "" THEN Some(p.body) ELSE Null]),
          err |-> Null]

\* buildRequest testing the scheme on the target as given
buildRequest_CaseSensitive(p, t) ==
    LET normTarget == toLowerCase(t) IN
    IF p.body # "" /\ (p.method = "GET" \/ p.method = "HEAD")
    THEN [value |-> Null, err |-> Some("body is not allowed for GET or HEAD request")]
    ELSE IF ~startsWith(t, "http://") /\ ~startsWith(t, "https://")
    THEN [value |-> Null,
          err |-> Some("target must start with either http:// or https://: " \o normTarget)]
    ELSE IF Len(p.allowedTargets) > 0 /\ ~ArraySome(p.allowedTargets, normTarget)
    THEN [value |-> Null,
          err |-> Some("target is not allowed in probe config: " \o normTarget)]
    ELSE [value |-> Some([url |-> normTarget,
                          method |-> p.method,
                          redirect |-> IF p.noFollowRedirects THEN "manual" ELSE "follow",
                          headers |-> p.headers,
                          body |-> IF p.body # "" THEN Some(p.body) ELSE Null]),
          err |-> Null]

\* buildRequest checking the scheme before the body/method rule
buildRequest_SchemeFirst(p, t) ==
    LET normTarget == toLowerCase(t) IN
    IF ~startsWith(normTarget, "http://") /\ ~startsWith(normTarget, "https://")
    THEN [value |-> Null,
          err |-> Some("target must start with either http:// or https://: " \o normTarget)]
    ELSE IF p.body # "" /\ (p.method = "GET" \/ p.method = "HEAD")
    THEN [value |-> Null, err |-> Some("body is not allowed for GET or HEAD request")]
    ELSE IF Len(p.allowedTargets) > 0 /\ ~ArraySome(p.allowedTargets, normTarget)
    THEN [value |-> Null,
          err |-> Some("target is not allowed in probe config: " \o normTarget)]
    ELSE [value |-> Some([url |-> normTarget,
                          method |-> p.method,
                          redirect |-> IF p.noFollowRedirects THEN "manual" ELSE "follow",
                          headers |-> p.headers,
                          body |-> IF p.body # "" THEN Some(p.body) ELSE Null]),
          err |-> Null]

buildRequest(p, t) ==
    LET normTarget == toLowerCase(t) IN
    IF p.body # "" /\ (p.method = "GET" \/ p.method = "HEAD")
    THEN [value |-> Null, err |-> Some("body is not allowed for GET or HEAD request")]
    ELSE IF ~startsWith(normTarget, "http://") /\ ~startsWith(normTarget, "https://")
    THEN [value |-> Null,
          err |-> Some("target must start with either http:// or https://: " \o normTarget)]
    ELSE IF Len(p.allowedTargets) > 0 /\ ~ArraySome(p.allowedTargets, normTarget)
    THEN [value |-> Null,
          err |-> Some("target is not allowed in probe config: " \o normTarget)]
    ELSE [value |-> Some([url |-> normTarget,
                          method |-> p.method,
                          redirect |-> IF p.noFollowRedirects THEN "manual" ELSE "follow",
                          headers |-> p.headers,
                          body |-> IF p.body # "" THEN Some(p.body) ELSE Null]),
          err |-> Null]

(***************************************************************************)
(* Response validation.                                                    *)
(***************************************************************************)
ArrayIncludes(a, x) == \E i \in 1..Len(a) : a[i] = x

validateResponseStatus(status, validStatus) ==
    IF IsStatusClass(validStatus) /\ validStatus.class = Http_1xx
    THEN ~(status < 100 \/ status >= 200)
    ELSE IF IsStatusClass(validStatus) /\ validStatus.class = Http_2xx
    THEN ~(status < 200 \/ status >= 300)
    ELSE IF IsStatusClass(validStatus) /\ validStatus.class = Http_3xx
    THEN ~(status < 300 \/ status >= 400)
    ELSE IF IsStatusClass(validStatus) /\ validStatus.class = Http_4xx
    THEN ~(status < 400 \/ status >= 500)
    ELSE IF IsStatusClass(validStatus) /\ validStatus.class = Http_5xx
    THEN ~(status < 500 \/ status >= 600)
    ELSE ArrayIncludes(validStatus.codes, status)

validateResponseBody(text, p) ==
    IF \E i \in 1..Len(p.failIfMatchesRegexp) : RegExpTest(p.failIfMatchesRegexp[i], text)
    THEN FALSE
    ELSE IF \E i \in 1..Len(p.failIfNotMatchesRegexp) :
                ~RegExpTest(p.failIfNotMatchesRegexp[i], text)
    THEN FALSE
    ELSE TRUE

\* validateResponse reading a missing body before the status stage
validateResponse_ReadFirst(p, r, bodyArg) ==
    IF ~validateResponseStatus(r.status, p.validStatusCodes)
    THEN [valid |-> FALSE, reads |-> bodyArg = Null]
    ELSE IF bodyArg = Null
    THEN [valid |-> validateResponseBody(r.text, p), reads |-> TRUE]
    ELSE [valid |-> validateResponseBody(bodyArg[1], p), reads |-> FALSE]

\* validateResponse reading the response itself whatever its third argument
validateResponse_IgnoresBodyArg(p, r, bodyArg) ==
    IF ~validateResponseStatus(r.status, p.validStatusCodes)
    THEN [valid |-> FALSE, reads |-> FALSE]
    ELSE [valid |-> validateResponseBody(r.text, p), reads |-> TRUE]

\* validateResponse taking an empty body argument for a missing one
validateResponse_FalsyBody(p, r, bodyArg) ==
    IF ~validateResponseStatus(r.status, p.validStatusCodes)
    THEN [valid |-> FALSE, reads |-> FALSE]
    ELSE IF bodyArg = Null \/ bodyArg[1] = ""
    THEN [valid |-> validateResponseBody(r.text, p), reads |-> TRUE]
    ELSE [valid |-> validateResponseBody(bodyArg[1], p), reads |-> FALSE]

\* r.text is the text resp.text() yields; bodyArg is the optional third
\* argument.  valid is the promised boolean, reads says whether the
\* validator itself called resp.text().
validateResponse(p, r, bodyArg) ==
    IF ~validateResponseStatus(r.status, p.validStatusCodes)
    THEN [valid |-> FALSE, reads |-> FALSE]
    ELSE IF bodyArg = Null
    THEN [valid |-> validateResponseBody(r.text, p), reads |-> TRUE]
    ELSE [valid |-> validateResponseBody(bodyArg[1], p), reads |-> FALSE]

(***************************************************************************)
(* Number parsing and formatting of the JavaScript runtime.                *)
(***************************************************************************)
Digits == "0123456789"
IsDigit(c) == \E i \in 1..Len(Digits) : CharAt(Digits, i) = c
DigitValue(c) == (CHOOSE i \in 1..Len(Digits) : CharAt(Digits, i) = c) - 1

\* the value of the longest prefix of decimal digits of s, continuing acc
RECURSIVE DigitsPrefixValue(_, _)
DigitsPrefixValue(s, acc) ==
    IF Len(s) > 0 /\ IsDigit(CharAt(s, 1))
    THEN DigitsPrefixValue(SubSeq(s, 2, Len(s)), 10 * acc + DigitValue(CharAt(s, 1)))
    ELSE acc

RECURSIVE TrimStart(_)
TrimStart(s) ==
    IF Len(s) > 0 /\ CharAt(s, 1) = " " THEN TrimStart(SubSeq(s, 2, Len(s))) ELSE s

\* parseInt(s) in radix 10: leading blanks, an optional sign, then digits up
\* to the first other character; NaN when no digit is found.  A number is
\* the record [nan, value].
NaN == [nan |-> TRUE, value |-> 0]
Number(n) == [nan |-> FALSE, value |-> n]

parseInt(s) ==
    LET t == TrimStart(s)
        neg == startsWith(t, "-")
        u == IF neg \/ startsWith(t, "+") THEN SubSeq(t, 2, Len(t)) ELSE t
    IN  IF Len(u) = 0 \/ ~IsDigit(CharAt(u, 1)) THEN NaN
        ELSE Number(IF neg THEN 0 - DigitsPrefixValue(u, 0) ELSE DigitsPrefixValue(u, 0))

\* `${x}` for a number
NumberToString(x) == IF x.nan THEN "NaN" ELSE ToString(x.value)

\* `${ms / 1000}` for an integer ms >= 0: at most three decimals, no
\* trailing zeros
MillisOverThousandToString(ms) ==
    LET q == ms \div 1000
        r == ms % 1000
        d1 == ToString(r \div 100)
        d2 == ToString((r \div 10) % 10)
        d3 == ToString(r % 10)
    IN  IF r = 0 THEN ToString(q)
        ELSE IF r % 100 = 0 THEN ToString(q) \o "." \o d1
        ELSE IF r % 10 = 0 THEN ToString(q) \o "." \o d1 \o d2
        ELSE ToString(q) \o "." \o d1 \o d2 \o d3

(***************************************************************************)
(* Headers.get: header names compare without case; null when absent.       *)
(***************************************************************************)
HeadersGet(h, name) ==
    IF \E i \in 1..Len(h) : toLowerCase(h[i][1]) = toLowerCase(name)
    THEN Some(h[CHOOSE i \in 1..Len(h) :
                  /\ toLowerCase(h[i][1]) = toLowerCase(name)
                  /\ \A j \in 1..(i - 1) : toLowerCase(h[j][1]) # toLowerCase(name)][2])
    ELSE Null

(***************************************************************************)
(* buildResponse: the metrics text of a ProbeResult.  The duration is kept *)
(* as the milliseconds after - before that the code divides by 1000.       *)
(***************************************************************************)
\* the boolean rendered as it stands, without `? 1 : 0`
BoolDigit_Literal(b) == IF b THEN "true" ELSE "false"

BoolDigit(b) == IF b THEN "1" ELSE "0"

\* buildResponse with the status-code and redirected lines exchanged
buildResponse_Swapped(r) ==
    [status |-> 200, statusText |-> "OK",
     body |-> "probe_success " \o BoolDigit(r.probe_success) \o "\n" \o
        "probe_duration_seconds " \o MillisOverThousandToString(r.probe_duration_ms) \o "\n" \o
        "probe_http_redirected " \o BoolDigit(r.probe_http_redirected) \o "\n" \o
        "probe_http_status_code " \o ToString(r.probe_http_status_code) \o "\n" \o
        "probe_http_content_length " \o NumberToString(r.probe_http_content_length) \o "\n" \o "    "]

\* buildResponse answering a failed probe with 400
buildResponse_FailureIs400(r) ==
    [status |-> IF r.probe_success THEN 200 ELSE 400,
     statusText |-> IF r.probe_success THEN "OK" ELSE "Bad Request",
     body |-> "probe_success " \o BoolDigit(r.probe_success) \o "\n" \o
        "probe_duration_seconds " \o MillisOverThousandToString(r.probe_duration_ms) \o "\n" \o
        "probe_http_status_code " \o ToString(r.probe_http_status_code) \o "\n" \o
        "probe_http_redirected " \o BoolDigit(r.probe_http_redirected) \o "\n" \o
        "probe_http_content_length " \o NumberToString(r.probe_http_content_length) \o "\n" \o "    "]

buildResponse(r) ==
    [status |-> 200, statusText |-> "OK",
     body |->
        "probe_success " \o BoolDigit(r.probe_success) \o "\n" \o
        "probe_duration_seconds " \o MillisOverThousandToString(r.probe_duration_ms) \o "\n" \o
        "probe_http_status_code " \o ToString(r.probe_http_status_code) \o "\n" \o
        "probe_http_redirected " \o BoolDigit(r.probe_http_redirected) \o "\n" \o
        "probe_http_content_length " \o NumberToString(r.probe_http_content_length) \o "\n" \o
        "    "]

(***************************************************************************)
(* processRequest and doProbe up to their first suspension point.          *)
(***************************************************************************)
\* processRequest looking the module up without regard to case
processRequest_AnyCase(r) ==
    IF r.method # "GET"
    THEN [response |-> Some(errorResponse("sorry, this only accept GET method")),
          call |-> Null]
    ELSE LET parsed == parseParams(r) IN
         IF parsed.value = Null
         THEN [response |-> Some(errorResponse(parsed.err[1])), call |-> Null]
         ELSE LET params == parsed.value[1] IN
              IF toLowerCase(params.module) \notin DOMAIN modules
              THEN [response |-> Some(errorResponse("unknown module: " \o params.module)),
                    call |-> Null]
              ELSE [response |-> Null,
                    call |-> Some([config |-> modules[toLowerCase(params.module)],
                                   target |-> params.target])]

\* processRequest parsing the parameters before it checks the method
processRequest_ParamsFirst(r) ==
    LET parsed == parseParams(r) IN
    IF parsed.value = Null
    THEN [response |-> Some(errorResponse(parsed.err[1])), call |-> Null]
    ELSE IF r.method # "GET"
    THEN [response |-> Some(errorResponse("sorry, this only accept GET method")),
          call |-> Null]
    ELSE LET params == parsed.value[1] IN
         IF params.module \notin DOMAIN modules
         THEN [response |-> Some(errorResponse("unknown module: " \o params.module)),
               call |-> Null]
         ELSE [response |-> Null,
               call |-> Some([config |-> modules[params.module],
                              target |-> params.target])]

\* processRequest: either a Response at once, or the call doProbe(module, target)
processRequest(r) ==
    IF r.method # "GET"
    THEN [response |-> Some(errorResponse("sorry, this only accept GET method")),
          call |-> Null]
    ELSE LET parsed == parseParams(r) IN
         IF parsed.value = Null
         THEN [response |-> Some(errorResponse(parsed.err[1])), call |-> Null]
         ELSE LET params == parsed.value[1] IN
              IF params.module \notin DOMAIN modules
              THEN [response |-> Some(errorResponse("unknown module: " \o params.module)),
                    call |-> Null]
              ELSE [response |-> Null,
                    call |-> Some([config |-> modules[params.module],
                                   target |-> params.target])]

\* doProbe issuing the fetch before it looks at buildRequest's error
doProbeUntilFetch_FetchFirst(cfg, t) ==
    LET p == HttpProbe(cfg)
        b == buildRequest(p, t)
    IN  IF b.err # Null
        THEN [probe |-> p, built |-> b,
              response |-> Some(errorResponse(b.err[1])), steps |-> <<"before", "fetch">>]
        ELSE [probe |-> p, built |-> b,
              response |-> Null, steps |-> <<"before", "fetch">>]

\* doProbe up to `await fetch(req)`: the probe, what buildRequest returned,
\* the error Response if it failed, and the I/O steps taken so far
doProbeUntilFetch(cfg, t) ==
    LET p == HttpProbe(cfg)
        b == buildRequest(p, t)
    IN  IF b.err # Null
        THEN [probe |-> p, built |-> b,
              response |-> Some(errorResponse(b.err[1])), steps |-> <<>>]
        ELSE [probe |-> p, built |-> b,
              response |-> Null, steps |-> <<"before", "fetch">>]

\* doProbe after `await resp.text()`: validation, content length, rendering
probeResult(p, r, text, t0, t1) ==
    [probe_success |-> validateResponse(p, r, Some(text)).valid,
     probe_duration_ms |-> t1 - t0,
     probe_http_status_code |-> r.status,
     probe_http_redirected |-> r.redirected,
     probe_http_content_length |->
        parseInt(OrString(HeadersGet(r.headers, "content-length"), "-1"))]

(***************************************************************************)
(* Bounds and the inputs drawn within them.                                *)
(***************************************************************************)
MaxDelay == 1       \* milliseconds that pass while a promise is pending
MaxEvents == 2      \* fetch events the runtime has in flight together

InboundMethods == {"GET", "POST", "HEAD"}
ModuleValues == {"http_get_2xx", "http_post_204", "HTTP_GET_2XX", "nope", ""}
TargetValues ==
    {"http://example.com/", "https://example.com", "HTTPS://Example.com",
     "HTTP://x", "example.com", "ftp://example.com", ""}
Optional(S) == {Null} \cup {Some(v) : v \in S}
Queries == [module : Optional(ModuleValues), target : Optional(TargetValues)]
InboundRequests == [method : InboundMethods, query : Queries]

ResponseStatuses == {200, 204, 301, 404}
ResponseBodies == {"ok", "error", ""}
ResponseHeaders == {<<>>, << <<"Content-Length", "2">> >>, << <<"content-length", "x">> >>}
\* text is what the body stream yields once it is read
OutboundResponses ==
    [status : ResponseStatuses, redirected : BOOLEAN,
     headers : ResponseHeaders, text : ResponseBodies]

(***************************************************************************)
(* The worker: one inbound request at a time, from the fetch event to the  *)
(* Response (or the rejection) handed to respondWith.                      *)
(***************************************************************************)
NoCall == [fn |-> "none"]

Events == 1..MaxEvents
NoEvent ==
    [pc |-> "idle", request |-> Null, outbound |-> Null, overlapped |-> FALSE,
     response |-> Null]
NoFrame == [probe |-> Null, built |-> Null, before |-> Null, resp |-> Null, body |-> Null]

Init ==
    /\ modules = ModuleTable
    /\ pc = "idle"
    /\ request = Null
    /\ config = Null
    /\ probe = Null
    /\ target = Null
    /\ built = Null
    /\ resp = Null
    /\ body = Null
    /\ success = Null
    /\ response = Null
    /\ now = 0
    /\ before = Null
    /\ after = Null
    /\ steps = <<>>
    /\ unit = NoCall
    /\ events = [e \in Events |-> NoEvent]
    /\ frames = [e \in Events |-> NoFrame]

Settled == pc \in {"responded", "rejected"}

\* the handler writing a default back into the module's configuration
ReceiveRequest_DefaultsInPlace(r) ==
    /\ pc = "idle"
    /\ request' = Some(r)
    /\ resp' = Null
    /\ body' = Null
    /\ success' = Null
    /\ after' = Null
    /\ LET pr == processRequest(r) IN
       IF pr.call = Null
       THEN /\ pc' = "responded"
            /\ response' = pr.response
            /\ config' = Null
            /\ probe' = Null
            /\ target' = Null
            /\ built' = Null
            /\ before' = Null
            /\ steps' = <<>>
       ELSE LET started == doProbeUntilFetch(pr.call[1].config, pr.call[1].target) IN
            /\ config' = Some(pr.call[1].config)
            /\ probe' = Some(started.probe)
            /\ target' = Some(pr.call[1].target)
            /\ built' = Some(started.built)
            /\ response' = started.response
            /\ steps' = started.steps
            /\ IF started.response # Null
               THEN pc' = "responded" /\ before' = Null
               ELSE pc' = "fetch" /\ before' = Some(now)
    /\ now' = 0
    /\ modules' = IF processRequest(r).call = Null
                  THEN modules
                  ELSE [modules EXCEPT ![r.query.module[1]].no_follow_redirects =
                                            Some(FALSE)]
    /\ UNCHANGED <<unit, events, frames>>

\* the fetch event: processRequest(fe.request), and doProbe up to `await fetch(req)`
ReceiveRequest(r) ==
    /\ pc = "idle"
    /\ request' = Some(r)
    /\ resp' = Null
    /\ body' = Null
    /\ success' = Null
    /\ after' = Null
    /\ LET pr == processRequest(r) IN
       IF pr.call = Null
       THEN /\ pc' = "responded"
            /\ response' = pr.response
            /\ config' = Null
            /\ probe' = Null
            /\ target' = Null
            /\ built' = Null
            /\ before' = Null
            /\ steps' = <<>>
       ELSE LET started == doProbeUntilFetch(pr.call[1].config, pr.call[1].target) IN
            /\ config' = Some(pr.call[1].config)
            /\ probe' = Some(started.probe)
            /\ target' = Some(pr.call[1].target)
            /\ built' = Some(started.built)
            /\ response' = started.response
            /\ steps' = started.steps
            /\ IF started.response # Null
               THEN pc' = "responded" /\ before' = Null
               ELSE pc' = "fetch" /\ before' = Some(now)
    /\ now' = 0
    /\ UNCHANGED <<modules, unit,
                   events, frames>>

\* the fetch promise resolves; doProbe goes on to `await resp.text()`
FetchResolves(r, d) ==
    /\ pc = "fetch"
    /\ now' = now + d
    /\ resp' = Some(r)
    /\ steps' = Append(steps, "text")
    /\ pc' = "text"
    /\ UNCHANGED <<modules, request, config, probe, target, built, body, success,
                   response, before, after, unit,
                   events, frames>>

\* a rejected fetch tried once more before giving up
FetchRejects_Retry ==
    /\ pc = "fetch"
    /\ IF Len(steps) < 3
       THEN pc' = "fetch" /\ steps' = Append(steps, "fetch")
       ELSE pc' = "rejected" /\ steps' = steps
    /\ UNCHANGED <<modules, request, config, probe, target, built, resp, body,
                   success, response, now, before, after, unit,
                   events, frames>>

\* the fetch promise rejects (transport error): doProbe's promise rejects
FetchRejects ==
    /\ pc = "fetch"
    /\ pc' = "rejected"
    /\ UNCHANGED <<modules, request, config, probe, target, built, resp, body,
                   success, response, now, before, after, steps, unit,
                   events, frames>>

\* the body has been read: end timestamp, validation, rendering
TextResolves(d) ==
    /\ pc = "text"
    /\ now' = now + d
    /\ after' = Some(now')
    /\ body' = Some(resp[1].text)
    /\ LET v == validateResponse(probe[1], resp[1], Some(resp[1].text))
           result == probeResult(probe[1], resp[1], resp[1].text, before[1], now')
       IN  /\ success' = Some(result.probe_success)
           /\ steps' = steps \o <<"after", "validate">> \o
                       (IF v.reads THEN <<"text">> ELSE <<>>) \o <<"render">>
           /\ response' = Some(buildResponse(result))
    /\ pc' = "responded"
    /\ UNCHANGED <<modules, request, config, probe, target, built, resp, before, unit,
                   events, frames>>

\* reading the body fails: doProbe's promise rejects
TextRejects ==
    /\ pc = "text"
    /\ pc' = "rejected"
    /\ UNCHANGED <<modules, request, config, probe, target, built, resp, body,
                   success, response, now, before, after, steps, unit,
                   events, frames>>

\* respondWith has settled: the event is over and its objects are dropped
EventCompletes ==
    /\ Settled
    /\ pc' = "idle"
    /\ request' = Null
    /\ config' = Null
    /\ probe' = Null
    /\ target' = Null
    /\ built' = Null
    /\ resp' = Null
    /\ body' = Null
    /\ success' = Null
    /\ response' = Null
    /\ before' = Null
    /\ after' = Null
    /\ steps' = <<>>
    /\ now' = 0
    /\ UNCHANGED <<modules, unit,
                   events, frames>>

Next ==
    \/ \E r \in InboundRequests : ReceiveRequest(r)
    \/ \E r \in OutboundResponses, d \in 0..MaxDelay : FetchResolves(r, d)
    \/ FetchRejects
    \/ \E d \in 0..MaxDelay : TextResolves(d)
    \/ TextRejects
    \/ EventCompletes

Spec == Init /\ [][Next]_vars

(***************************************************************************)
(* parseRayId of the labelled build: the cf-ray header value split into    *)
(* the ray id and the id of the point of presence.                         *)
(***************************************************************************)
\* String.prototype.indexOf for a one-character needle: the 0-based index
\* of the first occurrence, -1 when there is none
indexOf(s, c) ==
    IF \E i \in 1..Len(s) : CharAt(s, i) = c
    THEN (CHOOSE i \in 1..Len(s) :
            /\ CharAt(s, i) = c
            /\ \A j \in 1..(i - 1) : CharAt(s, j) # c) - 1
    ELSE -1

\* String.prototype.substr(start, length) and substr(start), for 0 <= start
substr(s, start, length) ==
    SubSeq(s, start + 1, IF start + length > Len(s) THEN Len(s) ELSE start + length)

substrFrom(s, start) == SubSeq(s, start + 1, Len(s))

\* parseRayId splitting at the last dash
parseRayId_LastDash(rayId) ==
    LET splitAt == IF \E i \in 1..Len(rayId) : CharAt(rayId, i) = "-"
                   THEN (CHOOSE i \in 1..Len(rayId) :
                            /\ CharAt(rayId, i) = "-"
                            /\ \A j \in (i + 1)..Len(rayId) : CharAt(rayId, j) # "-") - 1
                   ELSE -1
    IN  IF splitAt < 0
        THEN [rayId |-> rayId, popId |-> "unknown"]
        ELSE [rayId |-> substr(rayId, 0, splitAt), popId |-> substrFrom(rayId, splitAt + 1)]

parseRayId(rayId) ==
    LET splitAt == indexOf(rayId, "-") IN
    IF splitAt < 0
    THEN [rayId |-> rayId, popId |-> "unknown"]
    ELSE [rayId |-> substr(rayId, 0, splitAt), popId |-> substrFrom(rayId, splitAt + 1)]

\* the labelled build's doProbe from the content length on: the five values
\* of probeResult and the two labels
probeResultLabelled(requestHeaders, p, r, text, t0, t1) ==
    LET rayId == parseRayId(OrString(HeadersGet(r.headers, "cf-ray"), "unknown")) IN
    [probe_success |-> validateResponse(p, r, Some(text)).valid,
     probe_duration_ms |-> t1 - t0,
     probe_http_status_code |-> r.status,
     probe_http_redirected |-> r.redirected,
     probe_http_content_length |->
        parseInt(OrString(HeadersGet(r.headers, "content-length"), "-1")),
     client_country |-> OrString(HeadersGet(requestHeaders, "cf-ipcountry"), "unknown"),
     cf_pop |-> rayId.popId]

\* the labelled renderer labelling the first line only
buildResponseLabelled_FirstLineOnly(r) ==
    LET labels == "{pop=\"" \o r.cf_pop \o "\", client_ip_country=\"" \o
                  r.client_country \o "\"}"
    IN  [status |-> 200, statusText |-> "OK",
         body |->
            "probe_success" \o labels \o " " \o BoolDigit(r.probe_success) \o "\n" \o
            "probe_duration_seconds" \o " " \o MillisOverThousandToString(r.probe_duration_ms) \o "\n" \o
            "probe_http_status_code" \o " " \o ToString(r.probe_http_status_code) \o "\n" \o
            "probe_http_redirected" \o " " \o BoolDigit(r.probe_http_redirected) \o "\n" \o
            "probe_http_content_length" \o " " \o NumberToString(r.probe_http_content_length) \o "\n" \o
            "    "]

\* buildResponse of the labelled build
buildResponseLabelled(r) ==
    LET labels == "{pop=\"" \o r.cf_pop \o "\", client_ip_country=\"" \o
                  r.client_country \o "\"}"
    IN  [status |-> 200, statusText |-> "OK",
         body |->
            "probe_success" \o labels \o " " \o BoolDigit(r.probe_success) \o "\n" \o
            "probe_duration_seconds" \o labels \o " " \o MillisOverThousandToString(r.probe_duration_ms) \o "\n" \o
            "probe_http_status_code" \o labels \o " " \o ToString(r.probe_http_status_code) \o "\n" \o
            "probe_http_redirected" \o labels \o " " \o BoolDigit(r.probe_http_redirected) \o "\n" \o
            "probe_http_content_length" \o labels \o " " \o NumberToString(r.probe_http_content_length) \o "\n" \o
            "    "]

(***************************************************************************)
(* The exported functions called directly, as the test suite calls them:   *)
(* new HttpProbe(config), then buildRequest or validateResponse on it, and *)
(* parseParams on a request.  unit records the call and what it returned.  *)
(***************************************************************************)
UnitMethods ==
    {Null, Some("GET"), Some("HEAD"), Some("POST"), Some("PUT"), Some("DELETE"),
     Some("OPTIONS")}
UnitBodies == {Null, Some(""), Some("foo")}
UnitAllowedTargets ==
    {Null, Some(<<>>), Some(<<Literal("foo")>>),
     Some(<<Literal("https://example.com")>>),
     Some(<<Literal("https://Example.com")>>),
     Some(<<RegExp("https://.+")>>),
     Some(<<Literal("foo"), RegExp("^http://x$")>>)}
UnitHeaders == {Null, Some(<< <<"foo", "bar">> >>)}
UnitValidStatusCodes ==
    {Null} \cup {Some(StatusClass(c)) : c \in Http_1xx..Http_5xx} \cup
    {Some(StatusCodes(<<>>)), Some(StatusCodes(<<204>>)), Some(StatusCodes(<<200, 404>>))}
UnitFailIfMatches ==
    {Null, Some(<<RegExp("error")>>), Some(<<RegExp("error"), RegExp("k$")>>)}
UnitFailIfNotMatches ==
    {Null, Some(<<RegExp("ok")>>), Some(<<RegExp("ok"), RegExp("e")>>)}

\* configurations that vary the request options, and configurations that
\* vary the validation options
UnitConfigs ==
    {[EmptyConfig EXCEPT !.method = m, !.body = b, !.allowed_targets = a,
                         !.headers = h, !.no_follow_redirects = n] :
        m \in UnitMethods, b \in UnitBodies, a \in UnitAllowedTargets,
        h \in UnitHeaders, n \in {Null, Some(TRUE)}}
    \cup
    {[EmptyConfig EXCEPT !.valid_status_codes = v, !.fail_if_matches_regexp = f,
                         !.fail_if_not_matches_regexp = g] :
        v \in UnitValidStatusCodes, f \in UnitFailIfMatches,
        g \in UnitFailIfNotMatches}

UnitTargets ==
    TargetValues \cup {"https://example.com/path", "https://example.com/Path",
                       "https://Example.com", "http://x"}
UnitStatuses == {99, 100, 199, 200, 204, 299, 300, 399, 400, 404, 499, 500, 599, 600}
UnitResponses ==
    [status : UnitStatuses, redirected : {FALSE}, headers : {<<>>},
     text : {"ok", "error", "broken"}]
UnitBodyArgs == {Null, Some("ok"), Some("")}

UnitHttpProbe(cfg) ==
    /\ unit.fn = "none"
    /\ unit' = [fn |-> "HttpProbe", config |-> cfg, probe |-> HttpProbe(cfg)]
    /\ UNCHANGED <<modules, pc, request, config, probe, target, built, resp, body,
                   success, response, now, before, after, steps,
                   events, frames>>

UnitBuildRequest(t) ==
    /\ unit.fn = "HttpProbe"
    /\ unit' = [fn |-> "buildRequest", config |-> unit.config, probe |-> unit.probe,
                target |-> t, result |-> buildRequest(unit.probe, t)]
    /\ UNCHANGED <<modules, pc, request, config, probe, target, built, resp, body,
                   success, response, now, before, after, steps,
                   events, frames>>

UnitValidateResponse(r, b) ==
    /\ unit.fn = "HttpProbe"
    /\ unit' = [fn |-> "validateResponse", config |-> unit.config,
                probe |-> unit.probe, resp |-> r, bodyArg |-> b,
                result |-> validateResponse(unit.probe, r, b)]
    /\ UNCHANGED <<modules, pc, request, config, probe, target, built, resp, body,
                   success, response, now, before, after, steps,
                   events, frames>>

UnitParseParams(r) ==
    /\ unit.fn = "none"
    /\ unit' = [fn |-> "parseParams", request |-> r, result |-> parseParams(r)]
    /\ UNCHANGED <<modules, pc, request, config, probe, target, built, resp, body,
                   success, response, now, before, after, steps,
                   events, frames>>

RayIds ==
    {"foo-bar", "foo-bar-blah", "foobar", "", "-", "-x", "x-", "a--b", "unknown",
     "4f3a2b1c-SIN"}

UnitParseRayId(s) ==
    /\ unit.fn = "none"
    /\ unit' = [fn |-> "parseRayId", rayId |-> s, result |-> parseRayId(s)]
    /\ UNCHANGED <<modules, pc, request, config, probe, target, built, resp, body,
                   success, response, now, before, after, steps,
                   events, frames>>

\* the labelled build's doProbe once fetch and the body read have resolved
UnitRequestHeaders ==
    {<<>>, << <<"CF-IPCountry", "VN">> >>, << <<"cf-ipcountry", "">> >>,
     << <<"accept", "x">>, <<"cf-ipcountry", "IN">> >>}
UnitRayHeaders ==
    {<<>>, << <<"CF-Ray", "4f3a2b1c-SIN">> >>, << <<"cf-ray", "3e94c829a18d17b0">> >>,
     << <<"cf-ray", "foo-bar-blah">> >>, << <<"cf-ray", "abc-">> >>,
     << <<"cf-ray", "">> >>}
UnitRayResponses ==
    [status : {200, 404}, redirected : BOOLEAN, headers : UnitRayHeaders, text : {"ok"}]

UnitDoProbeLabelled(h, r) ==
    /\ unit.fn = "none"
    /\ unit' = [fn |-> "doProbe", requestHeaders |-> h, resp |-> r,
                response |-> buildResponseLabelled(
                    probeResultLabelled(h, HttpProbe(EmptyConfig), r, r.text, 0, 0))]
    /\ UNCHANGED <<modules, pc, request, config, probe, target, built, resp, body,
                   success, response, now, before, after, steps,
                   events, frames>>

\* the test case ends
UnitReturns ==
    /\ unit.fn # "none"
    /\ unit' = NoCall
    /\ UNCHANGED <<modules, pc, request, config, probe, target, built, resp, body,
                   success, response, now, before, after, steps,
                   events, frames>>

NextUnit ==
    \/ \E cfg \in UnitConfigs : UnitHttpProbe(cfg)
    \/ \E t \in UnitTargets : UnitBuildRequest(t)
    \/ \E r \in UnitResponses, b \in UnitBodyArgs : UnitValidateResponse(r, b)
    \/ \E r \in InboundRequests : UnitParseParams(r)
    \/ \E s \in RayIds : UnitParseRayId(s)
    \/ \E h \in UnitRequestHeaders, r \in UnitRayResponses : UnitDoProbeLabelled(h, r)
    \/ UnitReturns

SpecUnit == Init /\ [][NextUnit]_vars

(***************************************************************************)
(* Several fetch events in flight together.  The runtime runs one handler  *)
(* at a time up to its next await, so the handlers of different events     *)
(* interleave at `await fetch(req)` and `await resp.text()`.  Each call of *)
(* doProbe has its own locals; the module table is shared.  Time stands    *)
(* still here: every probe lasts 0 ms.  An event records, in overlapped,   *)
(* whether another event stood at an await when it was received.           *)
(***************************************************************************)
ConcRequests ==
    {[method |-> "GET",
      query |-> [module |-> Some("http_get_2xx"), target |-> Some("http://example.com/")]],
     [method |-> "GET",
      query |-> [module |-> Some("http_post_204"), target |-> Some("https://example.com")]],
     [method |-> "GET",
      query |-> [module |-> Some("http_get_2xx"), target |-> Some("example.com")]],
     [method |-> "POST",
      query |-> [module |-> Some("http_get_2xx"), target |-> Some("http://example.com/")]]}

ConcResponses ==
    {[status |-> 200, redirected |-> FALSE, headers |-> <<>>, text |-> "ok"],
     [status |-> 204, redirected |-> TRUE, headers |-> << <<"Content-Length", "2">> >>,
      text |-> "error"]}

\* the events whose handlers stand at an await
InFlight == {x \in Events : events[x].pc \in {"fetch", "text"}}

\* one storage cell for the locals of every doProbe call
Cell_Shared(e) == 1

\* the storage of the locals of event e's doProbe call: its own
Cell(e) == e

ConcReceive(e, r) ==
    /\ events[e].pc = "idle"
    /\ LET pr == processRequest(r) IN
       IF pr.call = Null
       THEN /\ events' = [events EXCEPT ![e] =
                    [pc |-> "responded", request |-> Some(r), outbound |-> Null,
                     overlapped |-> InFlight # {}, response |-> pr.response]]
            /\ frames' = frames
       ELSE LET started == doProbeUntilFetch(pr.call[1].config, pr.call[1].target) IN
            IF started.response # Null
            THEN /\ events' = [events EXCEPT ![e] =
                        [pc |-> "responded", request |-> Some(r), outbound |-> Null,
                         overlapped |-> InFlight # {}, response |-> started.response]]
                 /\ frames' = [frames EXCEPT ![Cell(e)].probe = Some(started.probe),
                                             ![Cell(e)].built = Some(started.built)]
            ELSE /\ events' = [events EXCEPT ![e] =
                        [pc |-> "fetch", request |-> Some(r), outbound |-> Null,
                         overlapped |-> InFlight # {}, response |-> Null]]
                 /\ frames' = [frames EXCEPT ![Cell(e)].probe = Some(started.probe),
                                             ![Cell(e)].built = Some(started.built),
                                             ![Cell(e)].before = Some(now)]
    /\ UNCHANGED <<modules, pc, request, config, probe, target, built, resp, body,
                   success, response, now, before, after, steps, unit>>

ConcFetchResolves(e, r) ==
    /\ events[e].pc = "fetch"
    /\ events' = [events EXCEPT ![e].pc = "text", ![e].outbound = Some(r)]
    /\ frames' = [frames EXCEPT ![Cell(e)].resp = Some(r)]
    /\ UNCHANGED <<modules, pc, request, config, probe, target, built, resp, body,
                   success, response, now, before, after, steps, unit>>

ConcFetchRejects(e) ==
    /\ events[e].pc = "fetch"
    /\ events' = [events EXCEPT ![e].pc = "rejected"]
    /\ UNCHANGED <<modules, pc, request, config, probe, target, built, resp, body,
                   success, response, now, before, after, steps, unit, frames>>

\* the body has been read: doProbe runs to its end on its locals
ConcTextResolves(e) ==
    /\ events[e].pc = "text"
    /\ LET f == frames[Cell(e)]
           text == f.resp[1].text
           result == probeResult(f.probe[1], f.resp[1], text, f.before[1], now)
       IN  /\ frames' = [frames EXCEPT ![Cell(e)].body = Some(text)]
           /\ events' = [events EXCEPT ![e].pc = "responded",
                                       ![e].response = Some(buildResponse(result))]
    /\ UNCHANGED <<modules, pc, request, config, probe, target, built, resp, body,
                   success, response, now, before, after, steps, unit>>

ConcTextRejects(e) ==
    /\ events[e].pc = "text"
    /\ events' = [events EXCEPT ![e].pc = "rejected"]
    /\ UNCHANGED <<modules, pc, request, config, probe, target, built, resp, body,
                   success, response, now, before, after, steps, unit, frames>>

\* every event in flight has settled: the events are over, their objects dropped
ConcEventsComplete ==
    /\ \A e \in Events : events[e].pc \in {"responded", "rejected"}
    /\ events' = [e \in Events |-> NoEvent]
    /\ frames' = [e \in Events |-> NoFrame]
    /\ UNCHANGED <<modules, pc, request, config, probe, target, built, resp, body,
                   success, response, now, before, after, steps, unit>>

NextConc ==
    \/ \E e \in Events, r \in ConcRequests : ConcReceive(e, r)
    \/ \E e \in Events, r \in ConcResponses : ConcFetchResolves(e, r)
    \/ \E e \in Events : ConcFetchRejects(e)
    \/ \E e \in Events : ConcTextResolves(e)
    \/ \E e \in Events : ConcTextRejects(e)
    \/ ConcEventsComplete

SpecConc == Init /\ [][NextConc]_vars

(***************************************************************************)
(* Properties.                                                             *)
(***************************************************************************)
\* the handler has processed the inbound request at least to its first await
Handled == pc # "idle"
Responded == pc = "responded"
Query == request[1].query
InboundMethod == request[1].method
BothParams == Query.module # Null /\ Query.target # Null
KnownModule == Query.module[1] \in {"http_get_2xx", "http_post_204"}
ErrorBody(msg) == "error: " \o msg \o "\n"
FetchIssued == \E i \in 1..Len(steps) : steps[i] = "fetch"

\* C1: a GET request whose query has no `module` parameter is answered 400
\* with a message containing "module parameter is missing", whether or not
\* `target` is present; the target error is never the one reported.
C1_MissingModuleReported ==
    (Handled /\ InboundMethod = "GET" /\ Query.module = Null) =>
        /\ Responded
        /\ response[1].status = 400
        /\ StrIncludes(response[1].body, "module parameter is missing")
        /\ ~StrIncludes(response[1].body, "target parameter is missing")

C1_Witness ==
    /\ Responded
    /\ InboundMethod = "GET"
    /\ Query.module = Null
    /\ Query.target = Null
    /\ response[1].status = 400

\* C2: parseParams returns an error exactly when a parameter is absent; with
\* `module` present and `target` absent the error is "target parameter is
\* missing"; with both present there is no error and the two values are
\* returned exactly as the query holds them.
C2_ParseParamsResult ==
    unit.fn = "parseParams" =>
        LET q == unit.request.query
            res == unit.result
        IN  /\ (res.err # Null) <=> (q.module = Null \/ q.target = Null)
            /\ (res.value = Null) <=> (res.err # Null)
            /\ (q.module # Null /\ q.target = Null) =>
                   res.err = Some("target parameter is missing")
            /\ (q.module # Null /\ q.target # Null) =>
                   res.value = Some([module |-> q.module[1], target |-> q.target[1]])

C2_Witness ==
    /\ unit.fn = "parseParams"
    /\ unit.request.query.module = Some("HTTP_GET_2XX")
    /\ unit.request.query.target = Some("HTTPS://Example.com")
    /\ unit.result.err = Null
    /\ unit.result.value[1].module = "HTTP_GET_2XX"

\* C3: a GET request carrying both parameters proceeds to the probe exactly
\* when the module value is, case-sensitively, a key of the module table;
\* otherwise it is answered 400 "unknown module: <name>", whatever the target.
C3_ModuleResolution ==
    (Handled /\ InboundMethod = "GET" /\ BothParams) =>
        /\ (probe # Null) <=> KnownModule
        /\ ~KnownModule =>
              /\ Responded
              /\ response[1].status = 400
              /\ response[1].body = ErrorBody("unknown module: " \o Query.module[1])

C3_Witness ==
    /\ Responded
    /\ InboundMethod = "GET"
    /\ Query.module = Some("HTTP_GET_2XX")
    /\ Query.target = Some("http://example.com/")
    /\ probe = Null
    /\ response[1].body = ErrorBody("unknown module: HTTP_GET_2XX")

\* C4: a request whose method is not GET is answered 400 with the fixed
\* message, whatever its parameters, module and target; no parameter error,
\* module error or probe comes of it.
C4_MethodCheckedFirst ==
    (Handled /\ InboundMethod # "GET") =>
        /\ Responded
        /\ response[1].status = 400
        /\ response[1].body = ErrorBody("sorry, this only accept GET method")
        /\ probe = Null
        /\ built = Null

C4_Witness ==
    /\ Responded
    /\ InboundMethod = "POST"
    /\ Query.module = Null
    /\ response[1].body = ErrorBody("sorry, this only accept GET method")

\* C5: every failure of the method check, the parameter parser, module
\* resolution or the request builder is answered with status 400 and the body
\* `error: <message>\n`, <message> being that failure's message; none is
\* answered with another status or with a metrics body.
PreflightFailed ==
    \/ InboundMethod # "GET"
    \/ ~BothParams
    \/ ~KnownModule
    \/ (built # Null /\ built[1].err # Null)

PreflightMessages ==
    IF InboundMethod # "GET" THEN {"sorry, this only accept GET method"}
    ELSE IF Query.module = Null THEN {"module parameter is missing"}
    ELSE IF Query.target = Null THEN {"target parameter is missing"}
    ELSE IF ~KnownModule THEN {"unknown module: " \o Query.module[1]}
    ELSE {"body is not allowed for GET or HEAD request",
          "target must start with either http:// or https://: " \o toLowerCase(Query.target[1]),
          "target is not allowed in probe config: " \o toLowerCase(Query.target[1])}

C5_FailuresAre400 ==
    (Handled /\ PreflightFailed) =>
        /\ Responded
        /\ response[1].status = 400
        /\ \E msg \in PreflightMessages : response[1].body = ErrorBody(msg)
        /\ ~StrIncludes(response[1].body, "probe_success")

C5_Witness ==
    /\ Responded
    /\ InboundMethod = "GET"
    /\ BothParams
    /\ KnownModule
    /\ built # Null
    /\ built[1].err # Null
    /\ response[1].status = 400
    /\ StrIncludes(response[1].body, "target is not allowed in probe config")

\* a direct buildRequest call and what it returned
BuildCall == unit.fn = "buildRequest"
BuildError(prefix) ==
    unit.result.err # Null /\ startsWith(unit.result.err[1], prefix)
BodyRuleFails == unit.probe.body # "" /\ unit.probe.method \in {"GET", "HEAD"}
\* some letter-case variant of `prefix` starts `s`
StartsWithAnyCase(s, prefix) ==
    /\ Len(s) >= Len(prefix)
    /\ \A i \in 1..Len(prefix) :
          LowerChar(CharAt(s, i)) = LowerChar(CharAt(prefix, i))
SchemeRuleFails ==
    ~StartsWithAnyCase(unit.target, "http://") /\ ~StartsWithAnyCase(unit.target, "https://")

\* C6: buildRequest fails with "body is not allowed for GET or HEAD request"
\* exactly when the probe's body is non-empty and its method is GET or HEAD.
C6_BodyNotAllowed ==
    BuildCall =>
        (unit.result.err = Some("body is not allowed for GET or HEAD request")
            <=> BodyRuleFails)

C6_Witness ==
    /\ BuildCall
    /\ unit.probe.method = "HEAD"
    /\ unit.probe.body = "foo"
    /\ unit.result.err = Some("body is not allowed for GET or HEAD request")

\* C7: for a probe that passes the body/method rule, buildRequest fails with
\* "target must start with either http:// or https://" exactly when the
\* target, letter case ignored, starts with neither prefix; HTTP://x is
\* accepted and the empty target is rejected.
C7_InvalidScheme ==
    (BuildCall /\ ~BodyRuleFails) =>
        /\ BuildError("target must start with either http:// or https://") <=> SchemeRuleFails
        /\ unit.target = "HTTP://x" =>
              ~BuildError("target must start with either http:// or https://")
        /\ unit.target = "" =>
              BuildError("target must start with either http:// or https://")

C7_Witness ==
    /\ BuildCall
    /\ ~BodyRuleFails
    /\ unit.target = "HTTP://x"
    /\ unit.probe.allowedTargets = <<>>
    /\ unit.result.err = Null

\* C8: with a non-empty allow-list and a target that passed the scheme rule,
\* buildRequest succeeds exactly when the lower-cased target equals a literal
\* entry or a pattern entry is found in it by regular-expression search, and
\* fails with "target is not allowed in probe config" otherwise; an empty
\* allow-list rejects no target.
AllowListAdmits ==
    \E i \in 1..Len(unit.probe.allowedTargets) :
        LET e == unit.probe.allowedTargets[i] IN
        IF IsRegExp(e) THEN RegExpTest(e, toLowerCase(unit.target))
        ELSE e.string = toLowerCase(unit.target)

C8_AllowList ==
    (BuildCall /\ ~BodyRuleFails /\ ~SchemeRuleFails) =>
        IF Len(unit.probe.allowedTargets) > 0
        THEN /\ (unit.result.err = Null /\ unit.result.value # Null) <=> AllowListAdmits
             /\ ~AllowListAdmits => BuildError("target is not allowed in probe config")
        ELSE unit.result.err = Null /\ unit.result.value # Null

C8_Witness ==
    /\ BuildCall
    /\ ~BodyRuleFails
    /\ unit.target = "HTTPS://Example.com"
    /\ unit.probe.allowedTargets = <<RegExp("https://.+")>>
    /\ unit.result.err = Null

\* C9: when the handler has answered 400, no outbound request was issued for
\* that inbound request; a fetch is issued only after buildRequest returned a
\* request and no error.
C9_NoFetchBeforeValidation ==
    /\ (Responded /\ response[1].status = 400) => ~FetchIssued
    /\ (Handled /\ (FetchIssued \/ pc \in {"fetch", "text"})) =>
          /\ built # Null
          /\ built[1].err = Null
          /\ built[1].value # Null

C9_Witness ==
    /\ Responded
    /\ built # Null
    /\ built[1].err # Null
    /\ response[1].status = 400
    /\ ~FetchIssued

\* C10: for every status class C given as valid_status_codes, the status
\* stage on the HttpProbe built from that configuration passes exactly when
\* the response status lies in C's half-open range.  (With both pattern
\* lists empty the validator's result is the status stage's.)
ClassRangeLow(c) == 100 * (c + 1)
InClassRange(c, status) == ClassRangeLow(c) <= status /\ status < ClassRangeLow(c) + 100

C10_StatusClassRange ==
    (/\ unit.fn = "validateResponse"
     /\ unit.config.valid_status_codes # Null
     /\ IsStatusClass(unit.config.valid_status_codes[1])
     /\ unit.config.fail_if_matches_regexp = Null
     /\ unit.config.fail_if_not_matches_regexp = Null) =>
        (unit.result.valid
            <=> InClassRange(unit.config.valid_status_codes[1].class, unit.resp.status))

\* C11: when valid_status_codes is an explicit array of codes, the status
\* stage passes exactly when the response status is an element of the array:
\* [204] admits 204 alone, an empty array admits nothing, and the 2xx
\* default plays no part.  (With both pattern lists empty the validator's
\* result is the status stage's.)
C11_ExplicitStatusSet ==
    (/\ unit.fn = "validateResponse"
     /\ unit.config.valid_status_codes # Null
     /\ ~IsStatusClass(unit.config.valid_status_codes[1])
     /\ unit.config.fail_if_matches_regexp = Null
     /\ unit.config.fail_if_not_matches_regexp = Null) =>
        (unit.result.valid
            <=> \E i \in 1..Len(unit.config.valid_status_codes[1].codes) :
                    unit.config.valid_status_codes[1].codes[i] = unit.resp.status)

\* an empty array given, a 200 response, and the validator answering false
C11_Witness ==
    /\ unit.fn = "validateResponse"
    /\ unit.config.valid_status_codes = Some(StatusCodes(<<>>))
    /\ unit.config.fail_if_matches_regexp = Null
    /\ unit.config.fail_if_not_matches_regexp = Null
    /\ unit.resp.status = 200
    /\ ~unit.result.valid

\* C12: validateResponse answers true exactly when the status stage passes,
\* no fail_if_matches_regexp pattern matches the body and every
\* fail_if_not_matches_regexp pattern matches it, the body being the third
\* argument when one is given and the response's text otherwise; with both
\* lists empty a status in [200, 300) is success whatever the body.
StatusStagePasses ==
    IF IsStatusClass(unit.probe.validStatusCodes)
    THEN InClassRange(unit.probe.validStatusCodes.class, unit.resp.status)
    ELSE \E i \in 1..Len(unit.probe.validStatusCodes.codes) :
            unit.probe.validStatusCodes.codes[i] = unit.resp.status

ValidatedText == IF unit.bodyArg = Null THEN unit.resp.text ELSE unit.bodyArg[1]

C12_ValidateResponse ==
    unit.fn = "validateResponse" =>
        /\ unit.result.valid <=>
                /\ StatusStagePasses
                /\ \A i \in 1..Len(unit.probe.failIfMatchesRegexp) :
                        ~RegExpTest(unit.probe.failIfMatchesRegexp[i], ValidatedText)
                /\ \A i \in 1..Len(unit.probe.failIfNotMatchesRegexp) :
                        RegExpTest(unit.probe.failIfNotMatchesRegexp[i], ValidatedText)
        /\ (/\ unit.config = EmptyConfig
            /\ 200 <= unit.resp.status
            /\ unit.resp.status < 300) => unit.result.valid

\* two required patterns, both found in the response's text, and a
\* forbidden pattern absent from it: success
C12_Witness ==
    /\ unit.fn = "validateResponse"
    /\ unit.probe.failIfNotMatchesRegexp = <<RegExp("ok"), RegExp("e")>>
    /\ unit.probe.failIfMatchesRegexp = <<RegExp("error")>>
    /\ unit.bodyArg = Null
    /\ unit.resp.text = "broken"
    /\ unit.result.valid

\* C13: for every probe result, successful or failed, the rendered body
\* holds exactly the five metrics probe_success, probe_duration_seconds,
\* probe_http_status_code, probe_http_redirected and
\* probe_http_content_length, in this order, each once on a line of its own
\* as `name value`; what follows the last line break is blank.
RECURSIVE Lines(_)
Lines(s) ==
    IF ~StrIncludes(s, "\n")
    THEN <<s>>
    ELSE LET i == CHOOSE k \in 1..Len(s) :
                    /\ CharAt(s, k) = "\n"
                    /\ \A j \in 1..(k - 1) : CharAt(s, j) # "\n"
         IN  <<SubSeq(s, 1, i - 1)>> \o Lines(SubSeq(s, i + 1, Len(s)))

MetricNames ==
    <<"probe_success", "probe_duration_seconds", "probe_http_status_code",
      "probe_http_redirected", "probe_http_content_length">>

IsBlank(s) == \A i \in 1..Len(s) : CharAt(s, i) = " "

\* line is `name value` with a non-empty value free of spaces
IsMetricLine(line, name) ==
    /\ startsWith(line, name \o " ")
    /\ Len(line) > Len(name) + 1
    /\ \A i \in (Len(name) + 2)..Len(line) : CharAt(line, i) # " "

Probed == Responded /\ resp # Null

ResponseLines == Lines(response[1].body)

C13_FiveMetricsInOrder ==
    Probed =>
        /\ Len(ResponseLines) = 6
        /\ \A i \in 1..5 : IsMetricLine(ResponseLines[i], MetricNames[i])
        /\ IsBlank(ResponseLines[6])

\* a failed probe (404 against the 2xx default) rendered
C13_Witness ==
    /\ Probed
    /\ resp[1].status = 404
    /\ success = Some(FALSE)
    /\ Len(ResponseLines) = 6

\* C14: in the rendered body probe_success is 1 exactly when the validator
\* answered success for the received response and its body and 0 when it
\* answered failure, probe_http_redirected is 1 or 0 following the
\* response's redirected flag, and probe_http_status_code is the received
\* response's status.
ValidatorSucceeded == validateResponse(probe[1], resp[1], body).valid

C14_RenderedValues ==
    Probed =>
        /\ ResponseLines[1] =
                (IF ValidatorSucceeded THEN "probe_success 1" ELSE "probe_success 0")
        /\ ResponseLines[4] =
                (IF resp[1].redirected THEN "probe_http_redirected 1"
                                       ELSE "probe_http_redirected 0")
        /\ ResponseLines[3] = "probe_http_status_code " \o ToString(resp[1].status)

\* a redirected 301 response, failing the 2xx default: success 0, redirected 1
C14_Witness ==
    /\ Probed
    /\ resp[1].status = 301
    /\ resp[1].redirected
    /\ ~ValidatorSucceeded
    /\ ResponseLines[1] = "probe_success 0"
    /\ ResponseLines[4] = "probe_http_redirected 1"

\* C15: whenever the outbound fetch has returned a response, whatever its
\* status and body, the handler's answer is a 200 carrying the metrics body,
\* also when validation failed; a failed validation is never answered 400.
C15_ProbeAnswered200 ==
    Probed =>
        /\ response # Null
        /\ response[1].status = 200
        /\ startsWith(response[1].body, "probe_success ")
        /\ ~startsWith(response[1].body, "error: ")

\* the body rule of http_get_2xx fails on a 200 response, answered 200
C15_Witness ==
    /\ Probed
    /\ resp[1].status = 200
    /\ body = Some("error")
    /\ success = Some(FALSE)
    /\ response[1].status = 200

\* C16: when the outbound fetch, or the reading of its body, fails with a
\* transport error, the handler still answers, with the rendered outcome of
\* a failed probe: a 200 whose first line is `probe_success 0`.
TransportFailed == Settled /\ FetchIssued /\ body = Null

C16_TransportFailureRendered ==
    TransportFailed =>
        /\ response # Null
        /\ response[1].status = 200
        /\ ResponseLines[1] = "probe_success 0"

\* C17: every inbound request ends with one response produced by the
\* handler, and on the transport-failure path that response is an error
\* response.
C17_EveryRequestAnswered ==
    Settled =>
        /\ response # Null
        /\ TransportFailed => response[1].status >= 400

\* C18: the rendered probe_http_content_length is the integer value of the
\* response's Content-Length header when the header is present and is a
\* decimal integer, and -1 when the header is absent or is not one; no
\* other value is ever rendered.
ContentLengthHeader == HeadersGet(resp[1].headers, "content-length")

IsDecimalInteger(s) == Len(s) > 0 /\ \A i \in 1..Len(s) : IsDigit(CharAt(s, i))

C18_ContentLength ==
    Probed =>
        ResponseLines[5] = "probe_http_content_length " \o
            (IF ContentLengthHeader # Null /\ IsDecimalInteger(ContentLengthHeader[1])
             THEN ToString(DigitsPrefixValue(ContentLengthHeader[1], 0))
             ELSE "-1")

\* C19: an HttpProbe takes, for every field its configuration leaves out,
\* the default (GET, no headers, empty body, redirects followed, empty
\* allow-list, the 2xx class, empty pattern lists), and for every field the
\* configuration sets, the value set; a request built with
\* no_follow_redirects left out has the redirect policy `follow`.
SetOrDefault(opt, dflt) == IF opt = Null THEN dflt ELSE opt[1]

C19_Defaults ==
    /\ unit.fn = "HttpProbe" =>
        /\ unit.probe.method = SetOrDefault(unit.config.method, "GET")
        /\ unit.probe.headers = SetOrDefault(unit.config.headers, <<>>)
        /\ unit.probe.body = SetOrDefault(unit.config.body, "")
        /\ unit.probe.noFollowRedirects =
                SetOrDefault(unit.config.no_follow_redirects, FALSE)
        /\ unit.probe.allowedTargets = SetOrDefault(unit.config.allowed_targets, <<>>)
        /\ unit.probe.validStatusCodes =
                SetOrDefault(unit.config.valid_status_codes, StatusClass(Http_2xx))
        /\ unit.probe.failIfMatchesRegexp =
                SetOrDefault(unit.config.fail_if_matches_regexp, <<>>)
        /\ unit.probe.failIfNotMatchesRegexp =
                SetOrDefault(unit.config.fail_if_not_matches_regexp, <<>>)
    /\ (/\ unit.fn = "buildRequest"
        /\ unit.config.no_follow_redirects = Null
        /\ unit.result.value # Null) => unit.result.value[1].redirect = "follow"

\* C20: parseRayId splits its input at the first dash only: for an input
\* holding a dash, rayId holds no dash and rayId, a dash and popId put
\* together give the input back; for an input without a dash, rayId is the
\* whole input and popId is "unknown".
C20_ParseRayId ==
    unit.fn = "parseRayId" =>
        IF StrIncludes(unit.rayId, "-")
        THEN /\ ~StrIncludes(unit.result.rayId, "-")
             /\ unit.result.rayId \o "-" \o unit.result.popId = unit.rayId
        ELSE /\ unit.result.rayId = unit.rayId
             /\ unit.result.popId = "unknown"

\* an input with two dashes: everything after the first goes to popId
C20_Witness ==
    /\ unit.fn = "parseRayId"
    /\ unit.rayId = "foo-bar-blah"
    /\ unit.result = [rayId |-> "foo", popId |-> "bar-blah"]

\* C21: when buildRequest succeeds, the URL of the request it returns is the
\* target string as the caller gave it, letter case kept.
C21_UrlCasePreserved ==
    (BuildCall /\ unit.result.value # Null) =>
        unit.result.value[1].url = unit.target

\* C22: buildRequest reports the first failing rule in the order body/method,
\* scheme, allow-list: a failing body/method rule gives the body error
\* whatever the target and the allow-list, and with the body/method rule
\* passed a failing scheme rule gives the scheme error whatever the
\* allow-list; the allow-list error is left for a target that passed both.
C22_RuleOrder ==
    BuildCall =>
        /\ BodyRuleFails =>
                unit.result.err = Some("body is not allowed for GET or HEAD request")
        /\ (~BodyRuleFails /\ SchemeRuleFails) =>
                BuildError("target must start with either http:// or https://")
        /\ BuildError("target is not allowed in probe config") =>
                ~BodyRuleFails /\ ~SchemeRuleFails

\* a GET probe with a body, a target of invalid scheme that is also absent
\* from the non-empty allow-list: the body error is the one reported
C22_Witness ==
    /\ BuildCall
    /\ unit.probe.method = "GET"
    /\ unit.probe.body = "foo"
    /\ unit.target = "ftp://example.com"
    /\ unit.probe.allowedTargets = <<Literal("foo")>>
    /\ unit.result.err = Some("body is not allowed for GET or HEAD request")

\* a target of invalid scheme, absent from the non-empty allow-list, on a
\* probe passing the body/method rule: the scheme error is the one reported
C22_WitnessScheme ==
    /\ BuildCall
    /\ ~BodyRuleFails
    /\ unit.target = "ftp://example.com"
    /\ unit.probe.allowedTargets = <<Literal("foo")>>
    /\ BuildError("target must start with either http:// or https://")

\* C23: validateResponse called without a body on a response whose status
\* fails the status stage answers false without reading the response's
\* body; the validator reads the body exactly when the status stage has
\* passed and no body was supplied.
C23_NoReadOnStatusFailure ==
    unit.fn = "validateResponse" =>
        /\ unit.result.reads <=> (StatusStagePasses /\ unit.bodyArg = Null)
        /\ (unit.bodyArg = Null /\ ~StatusStagePasses) =>
                (~unit.result.valid /\ ~unit.result.reads)

\* no body supplied, a 404 against the 2xx default: false, nothing read
C23_Witness ==
    /\ unit.fn = "validateResponse"
    /\ unit.config = EmptyConfig
    /\ unit.bodyArg = Null
    /\ unit.resp.status = 404
    /\ ~unit.result.valid
    /\ ~unit.result.reads

\* C24: a probe that reaches the network takes its steps in the order start
\* timestamp, fetch, read of the whole body, end timestamp, validation,
\* rendering: at every moment the steps taken are a beginning of that
\* sequence, so the end timestamp follows the read and the body is read once
\* per probe, the validator being handed the text read, the empty text
\* included.
ProbeSteps == <<"before", "fetch", "text", "after", "validate", "render">>

StepCount(name) == Cardinality({i \in 1..Len(steps) : steps[i] = name})

C24_StepOrder ==
    /\ Len(steps) <= Len(ProbeSteps)
    /\ steps = SubSeq(ProbeSteps, 1, Len(steps))
    /\ StepCount("text") <= 1
    /\ after # Null => body # Null
    /\ Probed => (steps = ProbeSteps /\ after # Null /\ after[1] >= before[1])

\* an empty body on a response whose status passes the status stage
C24_Witness ==
    /\ Probed
    /\ resp[1].status = 200
    /\ body = Some("")
    /\ steps = ProbeSteps

\* C25: an inbound request causes at most one outbound fetch, and exactly
\* one when it passes every pre-flight check (GET, both parameters, a known
\* module, the module's request rules); once the fetch has failed or
\* returned, whatever the status, no further fetch is issued for it.
PreflightPasses ==
    /\ InboundMethod = "GET"
    /\ BothParams
    /\ KnownModule
    /\ \/ StartsWithAnyCase(Query.target[1], "http://")
       \/ StartsWithAnyCase(Query.target[1], "https://")
    /\ Query.module[1] = "http_post_204" =>
            toLowerCase(Query.target[1]) = "https://example.com"

C25_AtMostOneFetch ==
    /\ StepCount("fetch") <= 1
    /\ Handled => (StepCount("fetch") = 1 <=> PreflightPasses)
    /\ pc \in {"text", "responded", "rejected"} =>
            (resp # Null => StepCount("fetch") = 1)

\* the fetch returned a 404, which fails validation: still one fetch
C25_Witness ==
    /\ Probed
    /\ resp[1].status = 404
    /\ success = Some(FALSE)
    /\ StepCount("fetch") = 1

\* the fetch failed: one fetch, none after it
C25_WitnessFailed ==
    /\ pc = "rejected"
    /\ resp = Null
    /\ StepCount("fetch") = 1

\* C26: whatever requests have been handled, the module table is as at
\* startup, the configuration a probe runs with is the table's entry for the
\* requested module, and the HttpProbe of the request in hand is the one
\* constructed from that entry: nothing is written to the table, to a
\* module's fields or to a constructed HttpProbe.
C26_TableUnchanged ==
    /\ modules = ModuleTable
    /\ config # Null => config[1] = ModuleTable[Query.module[1]]
    /\ probe # Null => probe[1] = HttpProbe(ModuleTable[Query.module[1]])

\* a probe of http_post_204 carried through to its rendered answer
C26_Witness ==
    /\ Probed
    /\ Query.module = Some("http_post_204")
    /\ probe = Some(HttpProbe(ModuleTable.http_post_204))
    /\ modules = ModuleTable

\* C28: in the labelled build every one of the five metric lines of a
\* response carries the same label block {pop, client_ip_country}: pop is
\* what follows the first dash of the probed response's cf-ray header, and
\* "unknown" when the header is missing or holds no dash; client_ip_country
\* is the caller's cf-ipcountry header, and "unknown" when it is missing (a
\* header present with an empty value counts as missing).
AfterFirstDash(s) ==
    LET i == CHOOSE k \in 1..Len(s) :
                /\ CharAt(s, k) = "-"
                /\ \A j \in 1..(k - 1) : CharAt(s, j) # "-"
    IN  SubSeq(s, i + 1, Len(s))

HeaderOrMissing(h, name) ==
    IF HeadersGet(h, name) = Null \/ HeadersGet(h, name)[1] = ""
    THEN Null ELSE HeadersGet(h, name)

ExpectedPop ==
    LET ray == HeaderOrMissing(unit.resp.headers, "cf-ray") IN
    IF ray = Null \/ ~StrIncludes(ray[1], "-") THEN "unknown" ELSE AfterFirstDash(ray[1])

ExpectedCountry ==
    LET c == HeaderOrMissing(unit.requestHeaders, "cf-ipcountry") IN
    IF c = Null THEN "unknown" ELSE c[1]

ExpectedLabels ==
    "{pop=\"" \o ExpectedPop \o "\", client_ip_country=\"" \o ExpectedCountry \o "\"}"

C28_UniformLabels ==
    unit.fn = "doProbe" =>
        LET ls == Lines(unit.response.body) IN
        /\ Len(ls) = 6
        /\ \A i \in 1..5 : startsWith(ls[i], MetricNames[i] \o ExpectedLabels \o " ")

\* both headers present, the ray id holding two dashes
C28_Witness ==
    /\ unit.fn = "doProbe"
    /\ unit.resp.headers = << <<"cf-ray", "foo-bar-blah">> >>
    /\ unit.requestHeaders = << <<"CF-IPCountry", "VN">> >>
    /\ startsWith(unit.response.body,
                  "probe_success{pop=\"bar-blah\", client_ip_country=\"VN\"} ")

\* C29: the allow-list being compared with the lower-cased target, a literal
\* entry holding an upper-case letter admits no target: a list made of such
\* entries rejects every target, and a request is built under a non-empty
\* list only through a pattern entry or a literal entry free of upper-case
\* letters.  Two targets that differ in letter case only get the same
\* decision from a list of literal entries.
HasUpperCase(s) == \E i \in 1..Len(s) : LowerChar(CharAt(s, i)) # CharAt(s, i)

LiteralsOnly == \A i \in 1..Len(unit.probe.allowedTargets) :
                    ~IsRegExp(unit.probe.allowedTargets[i])

C29_UpperCaseEntryAdmitsNothing ==
    (BuildCall /\ Len(unit.probe.allowedTargets) > 0) =>
        /\ (/\ LiteralsOnly
            /\ \A i \in 1..Len(unit.probe.allowedTargets) :
                    HasUpperCase(unit.probe.allowedTargets[i].string))
                => unit.result.value = Null
        /\ unit.result.value # Null =>
                \E i \in 1..Len(unit.probe.allowedTargets) :
                    LET e == unit.probe.allowedTargets[i] IN
                    IsRegExp(e) \/ (~HasUpperCase(e.string)
                                        /\ e.string = toLowerCase(unit.target))
        /\ LiteralsOnly =>
                \A t \in UnitTargets :
                    toLowerCase(t) = toLowerCase(unit.target) =>
                        (buildRequest(unit.probe, t).err = unit.result.err)

\* the target spelled exactly as the upper-case entry is rejected
C29_Witness ==
    /\ BuildCall
    /\ ~BodyRuleFails
    /\ unit.probe.allowedTargets = <<Literal("https://Example.com")>>
    /\ unit.target = "https://Example.com"
    /\ BuildError("target is not allowed in probe config")

\* C27: when several requests are handled together and their handlers
\* interleave at the awaits, the answer to each is the one the same request,
\* given the same outbound response, gets when handled alone; a request
\* whose fetch or body read failed gets none in either case.
AloneResponse(r, out) ==
    LET pr == processRequest(r) IN
    IF pr.call = Null THEN pr.response
    ELSE LET started == doProbeUntilFetch(pr.call[1].config, pr.call[1].target) IN
         IF started.response # Null THEN started.response
         ELSE Some(buildResponse(probeResult(started.probe, out[1], out[1].text, now, now)))

C27_IndependentOfInterleaving ==
    \A e \in Events :
        /\ events[e].pc = "responded" =>
                events[e].response = AloneResponse(events[e].request[1], events[e].outbound)
        /\ events[e].pc \in {"fetch", "text", "rejected"} => events[e].response = Null

\* a probe of http_post_204 received while a probe of http_get_2xx stood at
\* an await, each then answered on its own outbound response
C27_Witness ==
    /\ events[1].pc = "responded"
    /\ events[2].pc = "responded"
    /\ events[2].overlapped
    /\ events[1].request[1].query.module = Some("http_get_2xx")
    /\ events[2].request[1].query.module = Some("http_post_204")
    /\ events[1].outbound # Null
    /\ events[2].outbound # Null
    /\ events[1].outbound # events[2].outbound
    /\ events[1].response # events[2].response

====
